---------------------------- MODULE Spec2Model ----------------------------
(***************************************************************************)
(* Model of the quality scorer (src/src/mcp_server/quality_scorer.py) and  *)
(* of the content router and synthesizer                                   *)
(* (src/src/content_router/router.py, src/src/mcp_protocol.py).            *)
(*                                                                         *)
(* Numbers.  The program computes with Python floats.  The model computes  *)
(* with exact rationals <<numerator, denominator>> in lowest terms with a  *)
(* positive denominator, so "sums to 1.0" is exact here and stands for     *)
(* "sums to 1.0 within floating-point tolerance" there.                    *)
(*                                                                         *)
(* Text.  A Python str is modelled as a sequence of one-character strings, *)
(* so that lower(), split(), "in" and join() are computed, not assumed.    *)
(***************************************************************************)
EXTENDS Integers, Sequences, FiniteSets, TLC

VARIABLES
    factor_weights,             \* QualityScorer.factor_weights: factor -> weight
    source_reliability_scores,  \* QualityScorer.source_reliability_scores
    reliability_history,        \* source type -> last value a successful set_source_reliability stored
    scorer_out,                 \* outcome of the last scorer operation
    weight_calls,               \* number of set_factor_weight calls counted against the bound
    days_old,                   \* age, in whole days, of the content last scored for freshness
    freshness,                  \* _score_freshness of days_old
    registered_sources,         \* ContentRouter.registered_sources, in dict iteration order
    source_metrics,             \* ContentRouter.source_metrics
    routing_decisions_log,      \* ContentRouter.routing_decisions_log
    router_out,                 \* outcome of the last router operation
    decisions_returned,         \* number of route_request calls that returned a decision
    list_history,               \* the last two list_sources results since the last register_source
    lookup_history,             \* the last two _get_source_by_type calls since the last register_source
    register_call,              \* SpecLookup: the arguments of the last register_source call
    synth_out,                  \* outcome of the last synthesize_content call
    synth_track,                \* what happened since the last synthesize_content call, and whether it repeated the one before
    tools,                      \* MCPServer.tools: the names registered
    execution_count,            \* MCPTool.execution_count of every tool object
    error_handlers,             \* MCPServer.error_handlers: error type -> kind of handler
    request_count,              \* MCPServer.request_count
    error_count,                \* MCPServer.error_count
    server_out,                  \* outcome of the last server operation
    callers,                    \* each concurrent caller of route_request: where it is in the call and what it has read
    registrar,                  \* the register_source call in progress, between its two writes
    conc_returned,              \* the decisions concurrent route_request calls returned, in order of return
    calls_started               \* number of concurrent route_request calls started

scorer_vars == <<factor_weights, source_reliability_scores, reliability_history,
                 scorer_out, weight_calls>>
fresh_vars  == <<days_old, freshness>>
router_vars == <<registered_sources, source_metrics, routing_decisions_log, router_out,
                 decisions_returned, list_history, lookup_history, register_call>>
synth_vars  == <<synth_out, synth_track>>
server_vars == <<tools, execution_count, error_handlers, request_count, error_count,
                 server_out>>
conc_vars   == <<callers, registrar, conc_returned, calls_started>>

vars == <<scorer_vars, fresh_vars, router_vars, synth_vars, server_vars, conc_vars>>

-----------------------------------------------------------------------------
(* Exact rational arithmetic standing for Python float arithmetic.          *)

Abs(x) == IF x < 0 THEN -x ELSE x

RECURSIVE GCD(_, _)
GCD(a, b) == IF b = 0 THEN a ELSE GCD(b, a % b)

\* n/d in lowest terms, d # 0.
Rat(n, d) ==
    LET s == IF d < 0 THEN -1 ELSE 1
        g == GCD(Abs(n), Abs(d))
    IN  <<(s * n) \div g, (s * d) \div g>>

Zero == Rat(0, 1)
One  == Rat(1, 1)

LCM(a, b) == (a \div GCD(a, b)) * b

RAdd(a, b) ==
    LET l == LCM(a[2], b[2])
    IN  Rat(a[1] * (l \div a[2]) + b[1] * (l \div b[2]), l)

RMul(a, b) ==
    LET g1 == GCD(Abs(a[1]), b[2])
        g2 == GCD(Abs(b[1]), a[2])
    IN  Rat((a[1] \div g1) * (b[1] \div g2), (a[2] \div g2) * (b[2] \div g1))

\* a / b for b # 0
RDiv(a, b) == RMul(a, Rat(b[2], b[1]))

RLe(a, b) ==
    LET l == LCM(a[2], b[2])
    IN  a[1] * (l \div a[2]) <= b[1] * (l \div b[2])

RLt(a, b) == RLe(a, b) /\ a # b

RMin(a, b) == IF RLt(b, a) THEN b ELSE a   \* Python min(a, b)
RMax(a, b) == IF RLt(a, b) THEN b ELSE a   \* Python max(a, b)

InUnit(a) == RLe(Zero, a) /\ RLe(a, One)   \* 0 <= a <= 1

\* sum() of the rationals of a sequence
RECURSIVE RSum(_)
RSum(s) == IF s = <<>> THEN Zero ELSE RAdd(s[1], RSum(Tail(s)))

-----------------------------------------------------------------------------
(* QualityScorer                                                            *)

\* ScoringFactors, in declaration order.
ScoringFactors ==
    <<"source_reliability", "content_freshness", "relevance", "completeness",
      "accuracy", "citation_count", "user_feedback", "processing_quality">>

FactorSet == {ScoringFactors[i] : i \in 1..Len(ScoringFactors)}

\* QualityScorer.__init__: the default weights (processing_quality has none).
DefaultFactorWeights ==
    [f \in FactorSet \ {"processing_quality"} |->
        CASE f = "source_reliability" -> Rat(25, 100)
          [] f = "content_freshness"  -> Rat(15, 100)
          [] f = "relevance"          -> Rat(25, 100)
          [] f = "completeness"       -> Rat(15, 100)
          [] f = "accuracy"           -> Rat(15, 100)
          [] f = "citation_count"     -> Rat(3, 100)
          [] f = "user_feedback"      -> Rat(2, 100)]

\* QualityScorer.__init__: the default source reliability table.
DefaultSourceReliability ==
    [t \in {"memory", "verified_api", "published_research", "news_aggregator",
            "web_search", "social_media", "user_generated"} |->
        CASE t = "memory"             -> Rat(95, 100)
          [] t = "verified_api"       -> Rat(90, 100)
          [] t = "published_research" -> Rat(85, 100)
          [] t = "news_aggregator"    -> Rat(75, 100)
          [] t = "web_search"         -> Rat(65, 100)
          [] t = "social_media"       -> Rat(40, 100)
          [] t = "user_generated"     -> Rat(50, 100)]

\* The values of a weight table as a sequence (dict.values()).
RECURSIVE WeightValues(_, _)
WeightValues(w, i) ==
    IF i > Len(ScoringFactors) THEN <<>>
    ELSE (IF ScoringFactors[i] \in DOMAIN w THEN <<w[ScoringFactors[i]]>> ELSE <<>>)
         \o WeightValues(w, i + 1)

\* sum(self.factor_weights.values())
WeightTotal(w) == RSum(WeightValues(w, 1))

\* self.factor_weights[factor] = weight  (inserts the key when it is absent)
AssignWeight(w, factor, weight) ==
    [f \in DOMAIN w \cup {factor} |-> IF f = factor THEN weight ELSE w[f]]

\* the normalisation left out
NormalizeSkipped(w, total) == w

\* for key in self.factor_weights: self.factor_weights[key] /= total
Normalize(w, total) == [f \in DOMAIN w |-> RDiv(w[f], total)]

\* _score_source_reliability: self.source_reliability_scores.get(source_type, 0.5)
ScoreSourceReliability(table, source_type) ==
    IF source_type \in DOMAIN table THEN table[source_type] ELSE Rat(1, 2)

\* _score_freshness with the "<= 365" tier forgotten
ScoreFreshnessNoYearTier(d) ==
    IF d <= 30 THEN One
    ELSE IF d <= 90 THEN Rat(9, 10)
    ELSE IF d <= 180 THEN Rat(3, 4)
    ELSE RMax(Rat(1, 5), RAdd(One, Rat(-d, 365 * 2)))

\* _score_freshness, on the age in whole days that _days_old returns
ScoreFreshness(d) ==
    IF d <= 30 THEN One
    ELSE IF d <= 90 THEN Rat(9, 10)
    ELSE IF d <= 180 THEN Rat(3, 4)
    ELSE IF d <= 365 THEN Rat(1, 2)
    ELSE RMax(Rat(1, 5), RAdd(One, Rat(-d, 365 * 2)))

\* _score_completeness, on len(content.split()) and the caller's base score
ScoreCompleteness(word_count, base_score) ==
    LET length_score == RMin(Rat(word_count, 500), One)
    IN  RAdd(RMul(length_score, Rat(3, 10)), RMul(base_score, Rat(7, 10)))

\* min(citation_count / 10, 1.0)
CitationScore(citation_count) == RMin(Rat(citation_count, 10), One)

\* Clamp with the upper limit forgotten
ClampLowerOnly(x) == RMax(x, Zero)

\* min(max(overall_score, 0), 1)
Clamp(x) == RMin(RMax(x, Zero), One)

\* thresholds compared with > instead of >=
DetermineQualityLevelStrict(score) ==
    IF RLt(Rat(9, 10), score) THEN "verified"
    ELSE IF RLt(Rat(3, 4), score) THEN "high"
    ELSE IF RLt(Rat(1, 2), score) THEN "medium"
    ELSE "low"

\* _determine_quality_level
DetermineQualityLevel(score) ==
    IF RLe(Rat(9, 10), score) THEN "verified"
    ELSE IF RLe(Rat(3, 4), score) THEN "high"
    ELSE IF RLe(Rat(1, 2), score) THEN "medium"
    ELSE "low"

\* ScoreComponent (factor, weight, value); calculate() is value * weight
ScoreComponent(factor, weight, value) ==
    [factor |-> factor, weight |-> weight, value |-> value,
     weighted_value |-> RMul(value, weight)]

\* The seven components score_content builds, in order.
Components(w, table, in) ==
    << ScoreComponent("source_reliability", w["source_reliability"],
                      ScoreSourceReliability(table, in.source_type)),
       ScoreComponent("content_freshness", w["content_freshness"],
                      ScoreFreshness(in.days_old)),
       ScoreComponent("relevance", w["relevance"], in.relevance_score),
       ScoreComponent("completeness", w["completeness"],
                      ScoreCompleteness(in.word_count, in.completeness_score)),
       ScoreComponent("accuracy", w["accuracy"], in.accuracy_score),
       ScoreComponent("citation_count", w["citation_count"],
                      CitationScore(in.citation_count)),
       ScoreComponent("user_feedback", w["user_feedback"], in.user_feedback_score) >>

\* sum(component.calculate() for component in components)
WeightedSum(cs) == RSum([i \in 1..Len(cs) |-> cs[i].weighted_value])

\* overall_score of score_content
OverallScore(cs) == Clamp(WeightedSum(cs))

\* score_content's arguments; word_count stands for len(content.split()) and
\* days_old for (utcnow() - created_at).days.
ScoreInput(t, d, r, c, a, n, u, wc) ==
    [source_type |-> t, days_old |-> d, relevance_score |-> r,
     completeness_score |-> c, accuracy_score |-> a, citation_count |-> n,
     user_feedback_score |-> u, word_count |-> wc]

NoInput == ScoreInput("", 0, Zero, Zero, Zero, 0, Zero, 0)

\* The outcome record of a scorer operation, with the tables as the call found them.
ScorerOut(op, status, key, val, in, cs, overall, level) ==
    [op |-> op, status |-> status, key |-> key, val |-> val, input |-> in,
     components |-> cs, overall_score |-> overall, quality_level |-> level,
     before |-> [factor_weights |-> factor_weights,
                 source_reliability_scores |-> source_reliability_scores]]

\* set_factor_weight(factor, weight)
SetFactorWeight(factor, weight) ==
    LET assigned == AssignWeight(factor_weights, factor, weight)
        total    == WeightTotal(assigned)
        out(st)  == ScorerOut("set_factor_weight", st, factor, weight, NoInput,
                              <<>>, Zero, "")
    IN  /\ IF ~InUnit(weight)
           THEN /\ factor_weights' = factor_weights
                /\ scorer_out' = out("ValueError")
           ELSE IF total = Zero
           THEN \* the first "/= total" raises; the assignment stays
                /\ factor_weights' = assigned
                /\ scorer_out' = out("ZeroDivisionError")
           ELSE /\ factor_weights' = Normalize(assigned, total)
                /\ scorer_out' = out("ok")
        /\ UNCHANGED <<source_reliability_scores, reliability_history>>

\* the assignment overwriting known source types only
AssignReliabilityKnownOnly(table, source_type, reliability) ==
    [t \in DOMAIN table |-> IF t = source_type THEN reliability ELSE table[t]]

\* self.source_reliability_scores[source_type] = reliability
AssignReliability(table, source_type, reliability) ==
    [t \in DOMAIN table \cup {source_type} |->
        IF t = source_type THEN reliability ELSE table[t]]

\* the range test made after the assignment instead of before it
SetSourceReliabilityLateCheck(source_type, reliability) ==
    /\ source_reliability_scores' =
           AssignReliability(source_reliability_scores, source_type, reliability)
    /\ reliability_history' =
           [t \in DOMAIN reliability_history \cup {source_type} |->
               IF t = source_type THEN reliability ELSE reliability_history[t]]
    /\ scorer_out' = ScorerOut("set_source_reliability",
                               IF InUnit(reliability) THEN "ok" ELSE "ValueError",
                               source_type, reliability, NoInput, <<>>, Zero, "")
    /\ UNCHANGED <<factor_weights, weight_calls>>

\* set_source_reliability(source_type, reliability)
SetSourceReliability(source_type, reliability) ==
    LET out(st) == ScorerOut("set_source_reliability", st, source_type, reliability,
                             NoInput, <<>>, Zero, "")
    IN  /\ IF ~InUnit(reliability)
           THEN /\ UNCHANGED <<source_reliability_scores, reliability_history>>
                /\ scorer_out' = out("ValueError")
           ELSE /\ source_reliability_scores' =
                       AssignReliability(source_reliability_scores, source_type, reliability)
                /\ reliability_history' =
                       [t \in DOMAIN reliability_history \cup {source_type} |->
                           IF t = source_type THEN reliability ELSE reliability_history[t]]
                /\ scorer_out' = out("ok")
        /\ UNCHANGED <<factor_weights, weight_calls>>

\* score_content(...)
ScoreContent(in) ==
    LET cs      == Components(factor_weights, source_reliability_scores, in)
        overall == OverallScore(cs)
    IN  /\ scorer_out' = ScorerOut("score_content", "ok", in.source_type, Zero, in,
                                   cs, overall, DetermineQualityLevel(overall))
        /\ UNCHANGED <<factor_weights, source_reliability_scores,
                       reliability_history, weight_calls>>

-----------------------------------------------------------------------------
(* Inputs and bounds of the scorer specifications                           *)

MaxWeightCalls == 1    \* SpecScorer: accepted calls of set_factor_weight

\* weights offered to set_factor_weight: 0, 0.5, 1 and the out-of-range 1.5 and -0.1
WeightInputs == {Zero, Rat(1, 2), One, Rat(3, 2), Rat(-1, 10)}

\* weights offered to set_factor_weight in SpecWeights: 0 and the out-of-range 1.5
ZeroWeightInputs == {Zero, Rat(3, 2)}

\* factors offered to set_factor_weight in SpecScorer: the one the tests adjust,
\* the lightest one, and the member that has no default weight
FactorInputs == {"relevance", "citation_count", "processing_quality"}

\* source types offered to set_source_reliability and to score_content
SetSourceTypes   == {"memory", "custom"}
ScoreSourceTypes == {"memory", "custom", "blog"}

\* reliabilities offered to set_source_reliability: 0.8, 1 and the out-of-range
\* 1.5 and -0.1
ReliabilityInputs == {Rat(4, 5), One, Rat(3, 2), Rat(-1, 10)}

\* argument profiles of score_content
DefaultProfile(t) == ScoreInput(t, 0, Rat(1, 2), Rat(1, 2), Rat(1, 2), 0, Rat(1, 2), 10)

\* profiles that the default tables score exactly 0.5, 0.75 and 0.9
ThresholdInputs ==
    { ScoreInput("memory", 0, Rat(45, 100), Zero, Zero, 0, Zero, 0),
      ScoreInput("memory", 0, One, Zero, Rat(3, 4), 0, Zero, 0),
      ScoreInput("memory", 0, One, Rat(9, 14), One, 0, Zero, 500) }

\* The inputs offered to score_content: the defaults for every source type, and
\* for "memory" everything at its maximum with 10000 citations, everything at
\* its minimum on two-year-old content, and values above and below the
\* documented ranges.
ScoreInputs ==
    {DefaultProfile(t) : t \in ScoreSourceTypes}
    \cup { ScoreInput("memory", 0, One, One, One, 10000, One, 1000),
           ScoreInput("memory", 730, Zero, Zero, Zero, 0, Zero, 0),
           ScoreInput("memory", -1, Rat(2, 1), Rat(2, 1), Rat(2, 1), 10000, Rat(2, 1), 1000),
           ScoreInput("memory", 400, Rat(-1, 1), Rat(-1, 1), Rat(-1, 1), -5, Rat(-1, 1), 0) }
    \cup ThresholdInputs

ScorerInit ==
    /\ factor_weights = DefaultFactorWeights
    /\ source_reliability_scores = DefaultSourceReliability
    /\ reliability_history = [t \in {} |-> Zero]
    /\ scorer_out = ScorerOut("none", "ok", "", Zero, NoInput, <<>>, Zero, "")
    /\ weight_calls = 0

-----------------------------------------------------------------------------
(* ContentRouter: registry and routing                                      *)
(*                                                                          *)
(* Optional[str] is modelled as <<>> (None) or <<s>>.  The handler of a     *)
(* source is opaque to the router and timestamps are left out.              *)

None == <<>>
Some(v) == <<v>>

\* Python truthiness of an Optional[str]: None and "" are both falsy.
Truthy(opt) == opt # None /\ opt[1] # ""

\* RoutingStrategy
RoutingStrategy ==
    {"memory_first", "external_first", "balanced", "memory_only", "external_only"}

\* ContentRouter.__init__: default_strategy
default_strategy == "memory_first"

\* The metrics register_source initializes.
ZeroMetrics ==
    [queries_count |-> 0, successful_queries |-> 0, avg_response_time |-> Zero,
     avg_quality_score |-> Zero, hit_rate |-> Zero]

\* The ids of a registry, in iteration order.
IdsOf(reg) == [i \in 1..Len(reg) |-> reg[i].id]

IdSet(reg) == {reg[i].id : i \in 1..Len(reg)}

\* registration that keeps the entry of an id already registered
PutSourceKeepFirst(reg, id, type, priority) ==
    IF id \in {reg[i].id : i \in 1..Len(reg)}
    THEN reg
    ELSE Append(reg, [id |-> id, type |-> type, priority |-> priority])

\* registration that appends even when the id is already registered
PutSourceAppend(reg, id, type, priority) ==
    Append(reg, [id |-> id, type |-> type, priority |-> priority])

\* self.registered_sources[source_id] = {...}: a present key keeps its place
\* and gets the new value, an absent key is added at the end.
PutSource(reg, id, type, priority) ==
    LET entry == [id |-> id, type |-> type, priority |-> priority]
    IN  IF id \in IdSet(reg)
        THEN [i \in 1..Len(reg) |-> IF reg[i].id = id THEN entry ELSE reg[i]]
        ELSE Append(reg, entry)

\* The outcome record of a router operation.
RouterOut(op, status, query, arg, strategy, sources, quality, reasoning) ==
    [op |-> op, status |-> status, query |-> query, strategy_arg |-> arg,
     strategy |-> strategy, sources_to_query |-> sources,
     expected_quality |-> quality, reasoning |-> reasoning]

\* register_source(source_id, source_type, source_handler, priority)
RegisterSource(id, type, priority) ==
    /\ registered_sources' = PutSource(registered_sources, id, type, priority)
    /\ source_metrics' =
           [k \in DOMAIN source_metrics \cup {id} |->
               IF k = id THEN ZeroMetrics ELSE source_metrics[k]]
    /\ router_out' = RouterOut("register_source", "ok", <<>>, None, "", <<>>, Zero, "")
    /\ list_history' = <<>>
    /\ lookup_history' = <<>>
    /\ UNCHANGED <<routing_decisions_log, decisions_returned>>

\* a sort that puts the lowest priority first
RECURSIVE InsertAscending(_, _)
InsertAscending(sorted, e) ==
    IF sorted = <<>> THEN <<e>>
    ELSE IF sorted[1].priority > e.priority
         THEN <<e>> \o sorted
         ELSE <<sorted[1]>> \o InsertAscending(Tail(sorted), e)

\* sorted(..., key=priority, reverse=True) is stable: an entry goes after every
\* entry of a priority at least its own
RECURSIVE InsertByPriority(_, _)
InsertByPriority(sorted, e) ==
    IF sorted = <<>> THEN <<e>>
    ELSE IF sorted[1].priority < e.priority
         THEN <<e>> \o sorted
         ELSE <<sorted[1]>> \o InsertByPriority(Tail(sorted), e)

RECURSIVE SortedByPriorityFrom(_, _, _)
SortedByPriorityFrom(sources, k, acc) ==
    IF k > Len(sources) THEN acc
    ELSE SortedByPriorityFrom(sources, k + 1, InsertByPriority(acc, sources[k]))

\* the value list_sources returns
ListedSources(reg, metrics) ==
    LET sources == [i \in 1..Len(reg) |->
                       [id |-> reg[i].id, type |-> reg[i].type,
                        priority |-> reg[i].priority, metrics |-> metrics[reg[i].id]]]
    IN  SortedByPriorityFrom(sources, 1, <<>>)

\* a list_sources that counts itself as a query of every source
ListSourcesCounting ==
    /\ list_history' =
           IF list_history = <<>>
           THEN <<ListedSources(registered_sources, source_metrics)>>
           ELSE <<list_history[Len(list_history)],
                  ListedSources(registered_sources, source_metrics)>>
    /\ source_metrics' =
           [k \in DOMAIN source_metrics |->
               [source_metrics[k] EXCEPT !.queries_count = @ + 1]]
    /\ router_out' = RouterOut("list_sources", "ok", <<>>, None, "", <<>>, Zero, "")
    /\ UNCHANGED <<registered_sources, routing_decisions_log, decisions_returned,
                   lookup_history, register_call>>

\* list_sources()
ListSources ==
    /\ list_history' =
           IF list_history = <<>>
           THEN <<ListedSources(registered_sources, source_metrics)>>
           ELSE <<list_history[Len(list_history)],
                  ListedSources(registered_sources, source_metrics)>>
    /\ router_out' = RouterOut("list_sources", "ok", <<>>, None, "", <<>>, Zero, "")
    /\ UNCHANGED <<registered_sources, source_metrics, routing_decisions_log,
                   decisions_returned, lookup_history, register_call>>

\* the first candidate, whatever its priority
FirstCandidate(cands, best) == best

\* max(candidates, key=priority): the first candidate of the greatest priority
RECURSIVE FirstMax(_, _)
FirstMax(cands, best) ==
    IF cands = <<>> THEN best
    ELSE FirstMax(Tail(cands),
                  IF cands[1].priority > best.priority THEN cands[1] ELSE best)

\* _get_source_by_type
GetSourceByType(reg, source_type) ==
    LET candidates == SelectSeq(reg, LAMBDA e : e.type = source_type)
    IN  IF candidates = <<>> THEN None
        ELSE Some(FirstMax(Tail(candidates), candidates[1]).id)

\* a direct call of _get_source_by_type(source_type)
LookupSource(source_type) ==
    LET call == [source_type |-> source_type,
                 result |-> GetSourceByType(registered_sources, source_type)]
    IN  /\ lookup_history' =
               IF lookup_history = <<>> THEN <<call>>
               ELSE <<lookup_history[Len(lookup_history)], call>>
        /\ router_out' = RouterOut("_get_source_by_type", "ok", <<>>, None, "",
                                   call.result, Zero, "")
        /\ UNCHANGED <<registered_sources, source_metrics, routing_decisions_log,
                       decisions_returned, list_history, register_call>>

\* RoutingDecision
RoutingDecision(strategy, sources, quality, reasoning) ==
    [strategy |-> strategy, sources_to_query |-> sources,
     expected_quality |-> quality, reasoning |-> reasoning]

\* _route_memory_first
RouteMemoryFirst(reg) ==
    LET memory_source   == GetSourceByType(reg, "memory")
        external_source == GetSourceByType(reg, "web_search")
        sources ==
            IF Truthy(memory_source)
            THEN memory_source \o (IF Truthy(external_source) THEN external_source ELSE <<>>)
            ELSE (IF Truthy(external_source) THEN external_source ELSE <<>>)
        reasoning ==
            IF Truthy(memory_source)
            THEN "Memory-first strategy: querying memory first"
                 \o (IF Truthy(external_source) THEN ", with web fallback" ELSE "")
            ELSE IF Truthy(external_source)
                 THEN "No memory source available, using web search"
                 ELSE "Memory-first strategy: "
    IN  RoutingDecision("memory_first", sources,
                        IF Len(sources) >= 1 THEN Rat(8, 10) ELSE Rat(5, 10),
                        reasoning)

\* _route_external_first
RouteExternalFirst(reg) ==
    LET external_source == GetSourceByType(reg, "web_search")
        memory_source   == GetSourceByType(reg, "memory")
        sources ==
            (IF Truthy(external_source) THEN external_source ELSE <<>>)
            \o (IF Truthy(memory_source) THEN memory_source ELSE <<>>)
    IN  RoutingDecision("external_first", sources,
                        IF Len(sources) = 2 THEN Rat(85, 100) ELSE Rat(6, 10),
                        "External-first strategy: querying " \o ToString(Len(sources))
                            \o " sources")

\* _route_balanced
RouteBalanced(reg) ==
    LET sources == IdsOf(reg)
    IN  RoutingDecision("balanced", sources, Rat(9, 10),
                        "Balanced strategy: querying all " \o ToString(Len(sources))
                            \o " sources")

\* _route_memory_only
RouteMemoryOnly(reg) ==
    LET memory_source == GetSourceByType(reg, "memory")
        sources == IF Truthy(memory_source) THEN memory_source ELSE <<>>
    IN  RoutingDecision("memory_only", sources,
                        IF sources # <<>> THEN Rat(75, 100) ELSE Zero,
                        "Memory-only strategy")

\* _route_external_only
RouteExternalOnly(reg) ==
    LET external_source == GetSourceByType(reg, "web_search")
        sources == IF Truthy(external_source) THEN external_source ELSE <<>>
    IN  RoutingDecision("external_only", sources,
                        IF sources # <<>> THEN Rat(7, 10) ELSE Zero,
                        "External-only strategy")

\* The record _log_routing_decision appends.
LogRecord(decision, query) ==
    [query |-> query, strategy |-> decision.strategy,
     sources |-> decision.sources_to_query,
     expected_quality |-> decision.expected_quality]

\* strategy = strategy or self.default_strategy
EffectiveStrategy(strategy) == IF Truthy(strategy) THEN strategy[1] ELSE default_strategy

\* a route_request whose log keeps the latest record only
RouteRequestKeepLast(query, strategy) ==
    LET decision == RouteMemoryFirst(registered_sources)
    IN  /\ routing_decisions_log' = <<LogRecord(decision, query)>>
        /\ decisions_returned' = decisions_returned + 1
        /\ router_out' = RouterOut("route_request", "ok", query, strategy,
                                   decision.strategy, decision.sources_to_query,
                                   decision.expected_quality, decision.reasoning)
        /\ UNCHANGED <<registered_sources, source_metrics, list_history, lookup_history,
                       register_call>>

\* route_request(query, strategy): dispatch, then log the decision
RouteRequest(query, strategy) ==
    LET s == EffectiveStrategy(strategy)
        decision ==
            CASE s = "memory_first"   -> RouteMemoryFirst(registered_sources)
              [] s = "external_first" -> RouteExternalFirst(registered_sources)
              [] s = "balanced"       -> RouteBalanced(registered_sources)
              [] s = "memory_only"    -> RouteMemoryOnly(registered_sources)
              [] s = "external_only"  -> RouteExternalOnly(registered_sources)
    IN  /\ IF s \in RoutingStrategy
           THEN /\ routing_decisions_log' =
                       Append(routing_decisions_log, LogRecord(decision, query))
                /\ decisions_returned' = decisions_returned + 1
                /\ router_out' = RouterOut("route_request", "ok", query, strategy,
                                           decision.strategy, decision.sources_to_query,
                                           decision.expected_quality, decision.reasoning)
           ELSE /\ UNCHANGED <<routing_decisions_log, decisions_returned>>
                /\ router_out' = RouterOut("route_request", "ValueError", query, strategy, s,
                                           <<>>, Zero, "")
        /\ UNCHANGED <<registered_sources, source_metrics, list_history, lookup_history,
                       register_call>>

-----------------------------------------------------------------------------
(* Concurrent callers of one router                                         *)
(*                                                                          *)
(* route_request and register_source running in several threads.  A step is *)
(* one access to the shared dict or list: creating a dict iterator, one     *)
(* next() on it, one list.append, one item assignment.  A call that never   *)
(* yields to the others (coroutines on one event loop: the route methods    *)
(* await nothing that suspends) is the interleaving in which its steps      *)
(* follow one another.                                                      *)

Callers == {"c1", "c2"}

\* a caller outside a call
IdleCaller ==
    [pc |-> "idle", query |-> <<>>, strategy |-> "", todo |-> <<>>,
     it_size |-> 0, it_pos |-> 0, cands |-> <<>>, view |-> <<>>,
     decision |-> None, instants |-> {}]

ConcInit ==
    /\ callers = [c \in Callers |-> IdleCaller]
    /\ registrar = None
    /\ conc_returned = <<>>
    /\ calls_started = 0

\* the lookups a strategy makes, in order: _get_source_by_type of a type, or the
\* loop of _route_balanced over every id ("*")
LookupPlan(s) ==
    CASE s = "memory_first"   -> <<"memory", "web_search">>
      [] s = "external_first" -> <<"web_search", "memory">>
      [] s = "balanced"       -> <<"*">>
      [] s = "memory_only"    -> <<"memory">>
      [] s = "external_only"  -> <<"web_search">>

\* the decision of strategy s computed from the entries reg
DecisionFrom(s, reg) ==
    CASE s = "memory_first"   -> RouteMemoryFirst(reg)
      [] s = "external_first" -> RouteExternalFirst(reg)
      [] s = "balanced"       -> RouteBalanced(reg)
      [] s = "memory_only"    -> RouteMemoryOnly(reg)
      [] s = "external_only"  -> RouteExternalOnly(reg)

\* the registry changed: every call in progress has lived through one more instant
NoteInstant(cs, reg) ==
    [c \in Callers |->
        IF cs[c].pc = "idle" THEN cs[c]
        ELSE [cs[c] EXCEPT !.instants = @ \cup {IdSet(reg)}]]

\* register_source, first write: self.registered_sources[source_id] = {...}
RegisterWrite(id, type, priority) ==
    /\ registrar = None
    /\ registered_sources' = PutSource(registered_sources, id, type, priority)
    /\ registrar' = Some(id)
    /\ callers' = NoteInstant(callers, registered_sources')
    /\ UNCHANGED <<source_metrics, routing_decisions_log, router_out, decisions_returned,
                   list_history, lookup_history, register_call, conc_returned,
                   calls_started>>

\* register_source, second write: self.source_metrics[source_id] = {...}
RegisterMetrics ==
    /\ registrar # None
    /\ source_metrics' =
           [k \in DOMAIN source_metrics \cup {registrar[1]} |->
               IF k = registrar[1] THEN ZeroMetrics ELSE source_metrics[k]]
    /\ registrar' = None
    /\ UNCHANGED <<registered_sources, routing_decisions_log, router_out,
                   decisions_returned, list_history, lookup_history, register_call,
                   callers, conc_returned, calls_started>>

\* what a caller's step leaves alone
CallerFrame ==
    UNCHANGED <<registered_sources, source_metrics, router_out, decisions_returned,
                list_history, lookup_history, register_call, registrar>>

\* route_request entered: the strategy is defaulted and dispatched on
CallRoute(c, query, strategy) ==
    LET s == EffectiveStrategy(strategy)
    IN  /\ callers[c].pc = "idle"
        /\ calls_started' = calls_started + 1
        /\ callers' =
               [callers EXCEPT ![c] =
                   IF s \in RoutingStrategy
                   THEN [IdleCaller EXCEPT
                            !.pc = "iter_begin", !.query = query, !.strategy = s,
                            !.todo = LookupPlan(s),
                            !.instants = {IdSet(registered_sources)}]
                   ELSE IdleCaller]   \* ValueError
        /\ UNCHANGED <<routing_decisions_log, conc_returned>>
        /\ CallerFrame

\* the iterator over self.registered_sources is created: it notes the dict's size
BeginIteration(c) ==
    /\ callers[c].pc = "iter_begin"
    /\ callers' = [callers EXCEPT ![c] =
                       [@ EXCEPT !.pc = "iter_next",
                                 !.it_size = Len(registered_sources),
                                 !.it_pos = 0, !.cands = <<>>]]
    /\ UNCHANGED <<routing_decisions_log, conc_returned, calls_started>>
    /\ CallerFrame

\* one next() on the iterator: RuntimeError if the dict's size has changed, else
\* the next item, else the end of the loop (max() over the candidates of a lookup)
NextItem(c) ==
    LET me == callers[c]
        e  == registered_sources[me.it_pos + 1]
        found == IF me.todo[1] = "*" THEN me.cands
                 ELSE IF me.cands = <<>> THEN <<>>
                 ELSE <<FirstMax(Tail(me.cands), me.cands[1])>>
    IN  /\ me.pc = "iter_next"
        /\ callers' =
               [callers EXCEPT ![c] =
                   IF Len(registered_sources) # me.it_size
                   THEN IdleCaller   \* RuntimeError
                   ELSE IF me.it_pos < me.it_size
                   THEN [me EXCEPT !.it_pos = @ + 1,
                                   !.cands = IF me.todo[1] = "*" \/ e.type = me.todo[1]
                                             THEN Append(@, e) ELSE @]
                   ELSE [me EXCEPT !.view = @ \o found,
                                   !.todo = Tail(@),
                                   !.cands = <<>>, !.it_size = 0, !.it_pos = 0,
                                   !.pc = IF Len(me.todo) = 1 THEN "log" ELSE "iter_begin"]]
        /\ UNCHANGED <<routing_decisions_log, conc_returned, calls_started>>
        /\ CallerFrame

\* a _log_routing_decision that replaces the log by the new record
LogDecisionKeepLast(c) ==
    LET me == callers[c]
        decision == DecisionFrom(me.strategy, me.view)
    IN  /\ me.pc = "log"
        /\ routing_decisions_log' = <<LogRecord(decision, me.query)>>
        /\ callers' = [callers EXCEPT ![c] =
                           [me EXCEPT !.pc = "return", !.decision = Some(decision)]]
        /\ UNCHANGED <<conc_returned, calls_started>>
        /\ CallerFrame

\* the decision is built from what the call read, and _log_routing_decision
\* appends its record: self.routing_decisions_log.append({...})
LogDecision(c) ==
    LET me == callers[c]
        decision == DecisionFrom(me.strategy, me.view)
    IN  /\ me.pc = "log"
        /\ routing_decisions_log' =
               Append(routing_decisions_log, LogRecord(decision, me.query))
        /\ callers' = [callers EXCEPT ![c] =
                           [me EXCEPT !.pc = "return", !.decision = Some(decision)]]
        /\ UNCHANGED <<conc_returned, calls_started>>
        /\ CallerFrame

\* return decision
ReturnDecision(c) ==
    LET me == callers[c]
    IN  /\ me.pc = "return"
        /\ conc_returned' =
               Append(conc_returned,
                      [query |-> me.query, decision |-> me.decision[1],
                       instants |-> me.instants])
        /\ callers' = [callers EXCEPT ![c] = IdleCaller]
        /\ UNCHANGED <<routing_decisions_log, calls_started>>
        /\ CallerFrame

-----------------------------------------------------------------------------
(* Text: a str is a sequence of one-character strings                       *)

UpperAlphabet == <<"A", "B", "C", "D", "E", "F", "G", "H", "I", "J", "K", "L", "M", "N", "O", "P", "Q", "R", "S", "T", "U", "V", "W", "X", "Y", "Z">>
LowerAlphabet == <<"a", "b", "c", "d", "e", "f", "g", "h", "i", "j", "k", "l", "m", "n", "o", "p", "q", "r", "s", "t", "u", "v", "w", "x", "y", "z">>

\* str.lower() on one character
LowerChar(c) ==
    IF \E k \in 1..Len(UpperAlphabet) : UpperAlphabet[k] = c
    THEN LowerAlphabet[CHOOSE k \in 1..Len(UpperAlphabet) : UpperAlphabet[k] = c]
    ELSE c

\* str.lower()
Lower(s) == [k \in 1..Len(s) |-> LowerChar(s[k])]

Whitespace == {" ", "\n", "\t"}

\* str.split(): the maximal runs of non-whitespace characters, in order
RECURSIVE SplitFrom(_, _, _)
SplitFrom(s, k, word) ==
    IF k > Len(s) THEN (IF word = <<>> THEN <<>> ELSE <<word>>)
    ELSE IF s[k] \in Whitespace
         THEN (IF word = <<>> THEN <<>> ELSE <<word>>) \o SplitFrom(s, k + 1, <<>>)
         ELSE SplitFrom(s, k + 1, Append(word, s[k]))

Split(s) == SplitFrom(s, 1, <<>>)

\* "term in text": term occurs in text as a contiguous substring
Contains(text, term) ==
    \E k \in 0..(Len(text) - Len(term)) : SubSeq(text, k + 1, k + Len(term)) = term

\* sep.join(parts)
RECURSIVE Join(_, _)
Join(sep, parts) ==
    IF parts = <<>> THEN <<>>
    ELSE IF Len(parts) = 1 THEN parts[1]
    ELSE parts[1] \o sep \o Join(sep, Tail(parts))

\* A message built by an f-string: a literal prefix followed by computed text.
Msg(prefix, text) == [prefix |-> prefix, text |-> text]

-----------------------------------------------------------------------------
(* Synthesizer                                                              *)

\* ContentSource (last_updated and metadata are left out)
ContentSource(source_id, source_type, name, quality_score, confidence_score) ==
    [source_id |-> source_id, source_type |-> source_type, name |-> name,
     quality_score |-> quality_score, confidence_score |-> confidence_score]

\* ContentBlock (summary, keywords and the timestamps are left out)
ContentBlock(content_id, source, title, body, relevance_score) ==
    [content_id |-> content_id, source |-> source, title |-> title, body |-> body,
     relevance_score |-> relevance_score]

\* sorted(content_blocks, key=relevance_score, reverse=True): a stable sort, so
\* blocks of equal score keep their input order.  InsertDesc puts b after every
\* block whose score is >= its own.
RECURSIVE InsertDesc(_, _)
InsertDesc(sorted, b) ==
    IF sorted = <<>> THEN <<b>>
    ELSE IF RLt(sorted[1].relevance_score, b.relevance_score)
         THEN <<b>> \o sorted
         ELSE <<sorted[1]>> \o InsertDesc(Tail(sorted), b)

RECURSIVE SortedBlocksFrom(_, _, _)
SortedBlocksFrom(blocks, k, acc) ==
    IF k > Len(blocks) THEN acc
    ELSE SortedBlocksFrom(blocks, k + 1, InsertDesc(acc, blocks[k]))

SortedBlocks(blocks) == SortedBlocksFrom(blocks, 1, <<>>)

\* f"{block.body}\n[Source: {block.source.name}]"
Attributed(block) ==
    block.body \o <<"\n", "[", "S", "o", "u", "r", "c", "e", ":", " ">> \o block.source.name \o <<"]">>

\* _aggregate_content
AggregateContent(blocks) ==
    IF blocks = <<>> THEN <<>>
    ELSE LET sorted == SortedBlocks(blocks)
         IN  Join(<<"\n", "\n">>, [k \in 1..Len(sorted) |-> Attributed(sorted[k])])

\* list(set(block.source for block in content_blocks)).  ContentSource is a
\* pydantic BaseModel that is not frozen: it defines __eq__ and no __hash__, so
\* it is unhashable and set() raises TypeError on the first element.  Only the
\* empty generator gets through.
ExtractSources(blocks) ==
    IF blocks = <<>>
    THEN [raised |-> FALSE, sources |-> <<>>]
    ELSE [raised |-> TRUE, sources |-> <<>>]

\* _blocks_contradict
BlocksContradict(block1, block2) == FALSE

\* the pairs (i, j), i < j, in the order the two loops of _find_contradictions visit them
RECURSIVE PairsFrom(_, _, _)
PairsFrom(n, i, j) ==
    IF i > n THEN <<>>
    ELSE IF j > n THEN PairsFrom(n, i + 1, i + 2)
    ELSE <<(<<i, j>>)>> \o PairsFrom(n, i, j + 1)

\* _find_contradictions
FindContradictions(blocks) ==
    IF Len(blocks) >= 2
    THEN LET hits == SelectSeq(PairsFrom(Len(blocks), 1, 2),
                               LAMBDA p : BlocksContradict(blocks[p[1]], blocks[p[2]]))
         IN  [k \in 1..Len(hits) |->
                 [source1 |-> blocks[hits[k][1]].source.name,
                  source2 |-> blocks[hits[k][2]].source.name,
                  description |-> "Potentially conflicting information detected"]]
    ELSE <<>>

\* the number of times _find_contradictions calls _blocks_contradict: once for
\* each pair its two loops visit
PredicateCalls(blocks) ==
    IF Len(blocks) >= 2 THEN Len(PairsFrom(Len(blocks), 1, 2)) ELSE 0

\* _identify_gaps with the three checks in one if/elif chain
IdentifyGapsOneChain(blocks, query) ==
    LET query_terms   == Split(Lower(query))
        combined_text == Join(<<" ">>, [k \in 1..Len(blocks) |-> Lower(blocks[k].body)])
        missing_terms == SelectSeq(query_terms,
                                   LAMBDA term : Len(term) > 3 /\ ~Contains(combined_text, term))
    IN  IF missing_terms # <<>>
        THEN <<Msg("Missing coverage on: ", Join(<<",", " ">>, missing_terms))>>
        ELSE IF blocks = <<>>
        THEN <<Msg("No content available for query", <<>>)>>
        ELSE IF Len(blocks) = 1
        THEN <<Msg("Only single source available, multiple sources recommended", <<>>)>>
        ELSE <<>>

\* _identify_gaps
IdentifyGaps(blocks, query) ==
    LET query_terms   == Split(Lower(query))
        combined_text == Join(<<" ">>, [k \in 1..Len(blocks) |-> Lower(blocks[k].body)])
        missing_terms == SelectSeq(query_terms,
                                   LAMBDA term : Len(term) > 3 /\ ~Contains(combined_text, term))
    IN  (IF missing_terms # <<>>
         THEN <<Msg("Missing coverage on: ", Join(<<",", " ">>, missing_terms))>>
         ELSE <<>>)
        \o (IF blocks = <<>>
            THEN <<Msg("No content available for query", <<>>)>>
            ELSE IF Len(blocks) = 1
            THEN <<Msg("Only single source available, multiple sources recommended", <<>>)>>
            ELSE <<>>)

\* sum(relevance_score) / len(content_blocks) if content_blocks else 0
MeanRelevance(blocks) ==
    IF blocks # <<>>
    THEN RDiv(RSum([k \in 1..Len(blocks) |-> blocks[k].relevance_score]),
              Rat(Len(blocks), 1))
    ELSE Zero

\* _generate_recommendations
GenerateRecommendations(blocks, contradictions, gaps) ==
    (IF contradictions # <<>>
     THEN <<Msg("Verify " \o ToString(Len(contradictions))
                \o " contradiction(s) between sources", <<>>)>>
     ELSE <<>>)
    \o (IF gaps # <<>>
        THEN <<Msg("Additional research needed: " \o gaps[1].prefix, gaps[1].text)>>
        ELSE <<>>)
    \o (IF Len(blocks) < 2
        THEN <<Msg("Consult multiple sources for better coverage", <<>>)>>
        ELSE <<>>)
    \o (IF RLt(MeanRelevance(blocks), Rat(6, 10))
        THEN <<Msg("Consider re-querying with refined search terms", <<>>)>>
        ELSE <<>>)

\* The outcome record of synthesize_content.
\* predicate_calls counts the evaluations of _blocks_contradict the call made.
\* blocks is the list passed in, content_blocks the caller's list after the call.
SynthOut(op, status, query, blocks, after, aggregated, sources, quality, contras, gaps, recs, calls) ==
    [op |-> op, status |-> status, query |-> query, blocks |-> blocks,
     content_blocks |-> after,
     aggregated_content |-> aggregated, sources |-> sources,
     quality_score |-> quality, contradictions |-> contras, gaps |-> gaps,
     recommendations |-> recs, predicate_calls |-> calls]

\* synthesize_content with _aggregate_content sorting the caller's list in place
\* (content_blocks.sort) instead of building a sorted copy
SynthesizeContentSortInPlace(query, blocks) ==
    LET aggregated     == AggregateContent(blocks)
        extracted      == ExtractSources(blocks)
        contradictions == FindContradictions(blocks)
        gaps           == IdentifyGaps(blocks, query)
        quality        == MeanRelevance(blocks)
        recommendations == GenerateRecommendations(blocks, contradictions, gaps)
    IN  /\ synth_out' =
               IF extracted.raised
               THEN SynthOut("synthesize_content", "TypeError", query, blocks, SortedBlocks(blocks),
                             <<>>, <<>>, Zero, <<>>, <<>>, <<>>, 0)
               ELSE SynthOut("synthesize_content", "ok", query, blocks, SortedBlocks(blocks), aggregated,
                             extracted.sources, quality, contradictions, gaps,
                             recommendations, PredicateCalls(blocks))
        /\ UNCHANGED router_vars

\* synthesize_content(query, content_blocks)
SynthesizeContent(query, blocks) ==
    LET aggregated     == AggregateContent(blocks)
        extracted      == ExtractSources(blocks)
        contradictions == FindContradictions(blocks)
        gaps           == IdentifyGaps(blocks, query)
        quality        == MeanRelevance(blocks)
        recommendations == GenerateRecommendations(blocks, contradictions, gaps)
    IN  /\ synth_out' =
               IF extracted.raised
               THEN SynthOut("synthesize_content", "TypeError", query, blocks, blocks,
                             <<>>, <<>>, Zero, <<>>, <<>>, <<>>, 0)
               ELSE SynthOut("synthesize_content", "ok", query, blocks, blocks, aggregated,
                             extracted.sources, quality, contradictions, gaps,
                             recommendations, PredicateCalls(blocks))
        /\ UNCHANGED router_vars

-----------------------------------------------------------------------------
(* Inputs and bounds of the synthesizer specification                       *)

MaxBlocks == 3         \* blocks in one synthesize_content call

\* src1 as fetched twice (same source_id, other fields differ) and src2
SourceMemory  == ContentSource("src1", "memory", <<"M", "e", "m">>, Rat(95, 100), Rat(9, 10))
SourceMemory2 == ContentSource("src1", "memory", <<"M", "e", "m", "2">>, Rat(90, 100), Rat(9, 10))
SourceWeb     == ContentSource("src2", "web_search", <<"W", "e", "b">>, Rat(85, 100), Rat(8, 10))

BlockPool ==
    { ContentBlock("block1", SourceMemory, Some(<<"M", "e", "m", "o", "r", "y", " ", "C", "o", "n", "t", "e", "n", "t">>), <<"c", "a", "t", "s", " ", "n", "a", "p">>, Rat(9, 10)),
      ContentBlock("block2", SourceWeb, Some(<<"W", "e", "b", " ", "C", "o", "n", "t", "e", "n", "t">>), <<"D", "o", "g", "s", " ", "r", "u", "n">>, Rat(8, 10)),
      ContentBlock("block3", SourceMemory2, Some(<<"A", "g", "a", "i", "n">>), <<"c", "a", "t", "s">>, Rat(9, 10)),
      ContentBlock("block4", SourceWeb, None, <<"o", "w", "l">>, Rat(2, 10)) }

\* the block sequences offered: every sequence of at most MaxBlocks pool blocks
BlockSeqs == UNION {[1..n -> BlockPool] : n \in 0..MaxBlocks}

\* the queries offered: "cats", "DOGS fly", "an owl" and the empty query
SynthQueries == {<<"c", "a", "t", "s">>, <<"D", "O", "G", "S", " ", "f", "l", "y">>, <<"a", "n", " ", "o", "w", "l">>, <<>>}

-----------------------------------------------------------------------------
(* MCPServer: tool registry, error handlers and request processing          *)
(*                                                                          *)
(* A tool object is identified by its name; its execution_count belongs to  *)
(* the object and outlives its registration.  Execution times, timestamps   *)
(* and middleware (none is added) are left out.                             *)

\* MCPRequest: request_id, method, tool, and params.get("tool_name")
MCPRequest(request_id, method, tool, tool_name) ==
    [request_id |-> request_id, method |-> method, tool |-> tool, tool_name |-> tool_name]

\* MCPResponse: data and error are None or a dict
MCPResponse(request_id, status, data, error) ==
    [request_id |-> request_id, status |-> status, data |-> data, error |-> error]

\* MCPException(message), and the exception a tool's execute raises
MCPException(message) == [type |-> "MCPException", message |-> message]
ToolFailure == [type |-> "RuntimeError", message |-> "tool failed"]

\* The outcome record of a server operation: the exception that left the call, if
\* any, and the response returned, if any.
ServerOut(op, request, raised, response) ==
    [op |-> op, request |-> request, raised |-> raised, response |-> response]

NoRequest == MCPRequest("", "", "", None)

\* MCPServer.__init__
ServerInit ==
    /\ tools = {}
    /\ execution_count = [t \in {} |-> 0]
    /\ error_handlers = [e \in {} |-> ""]
    /\ request_count = 0
    /\ error_count = 0
    /\ server_out = ServerOut("none", NoRequest, None, None)

\* register_tool(tool): self.tools[tool.name] = tool
RegisterTool(name) ==
    /\ tools' = tools \cup {name}
    /\ execution_count' =
           [t \in DOMAIN execution_count \cup {name} |->
               IF t \in DOMAIN execution_count THEN execution_count[t] ELSE 0]
    /\ server_out' = ServerOut("register_tool", NoRequest, None, None)
    /\ UNCHANGED <<error_handlers, request_count, error_count>>

\* unregister_tool(tool_name): del self.tools[tool_name] when present
UnregisterTool(name) ==
    /\ tools' = tools \ {name}
    /\ server_out' = ServerOut("unregister_tool", NoRequest, None, None)
    /\ UNCHANGED <<execution_count, error_handlers, request_count, error_count>>

\* register_error_handler(error_type, handler); the handler is a plain function
\* returning a dict ("sync") or an async def function ("async")
RegisterErrorHandler(error_type, kind) ==
    /\ error_handlers' =
           [e \in DOMAIN error_handlers \cup {error_type} |->
               IF e = error_type THEN kind ELSE error_handlers[e]]
    /\ server_out' = ServerOut("register_error_handler", NoRequest, None, None)
    /\ UNCHANGED <<tools, execution_count, request_count, error_count>>

\* handle_error(error).  A function has no __await__ attribute, so a registered
\* handler is called and its result returned as it is: the dict of a plain
\* function, the un-awaited coroutine object of an async def function.
HandleError(handlers, error) ==
    IF error.type \in DOMAIN handlers
    THEN IF handlers[error.type] = "async"
         THEN [is_dict |-> FALSE, value |-> "coroutine"]
         ELSE [is_dict |-> TRUE,
               value |-> [error_type |-> error.type, message |-> "handled"]]
    ELSE [is_dict |-> TRUE,
          value |-> [error_type |-> error.type, message |-> error.message]]

\* _execute_tool, _list_tools, _get_tool_info and the dispatch of process_request:
\* the response on success, the exception otherwise.  tool_raises tells whether
\* the tool's own execute raises.
Dispatch(registered, request, tool_raises) ==
    CASE request.method = "execute" ->
             IF request.tool \notin registered
             THEN [ok |-> FALSE, error |-> MCPException("Tool not found: " \o request.tool)]
             ELSE IF tool_raises
                  THEN [ok |-> FALSE, error |-> ToolFailure]
                  ELSE [ok |-> TRUE, executed |-> Some(request.tool),
                        data |-> Some([tool |-> request.tool])]
      [] request.method = "list_tools" ->
             [ok |-> TRUE, executed |-> None,
              data |-> Some([count |-> Cardinality(registered)])]
      [] request.method = "get_tool_info" ->
             IF ~Truthy(request.tool_name)
             THEN [ok |-> FALSE, error |-> MCPException("tool_name parameter required")]
             ELSE IF request.tool_name[1] \notin registered
                  THEN [ok |-> FALSE,
                        error |-> MCPException("Tool not found: " \o request.tool_name[1])]
                  ELSE [ok |-> TRUE, executed |-> None,
                        data |-> Some([tool |-> request.tool_name[1]])]
      [] OTHER ->
             [ok |-> FALSE, error |-> MCPException("Unknown method: " \o request.method)]

\* process_request(request)
ProcessRequest(request, tool_raises) ==
    LET result == Dispatch(tools, request, tool_raises)
        error_data == HandleError(error_handlers, result.error)
    IN  /\ request_count' = request_count + 1
        /\ IF result.ok
           THEN /\ execution_count' =
                       [t \in DOMAIN execution_count |->
                           IF result.executed = Some(t)
                           THEN execution_count[t] + 1 ELSE execution_count[t]]
                /\ error_count' = error_count
                /\ server_out' =
                       ServerOut("process_request", request, None,
                                 Some(MCPResponse(request.request_id, "success",
                                                  result.data, None)))
           ELSE /\ execution_count' = execution_count
                /\ error_count' = error_count + 1
                /\ server_out' =
                       IF error_data.is_dict
                       THEN ServerOut("process_request", request, None,
                                      Some(MCPResponse(request.request_id, "error",
                                                       None, Some(error_data.value))))
                       ELSE \* MCPResponse(error=<coroutine>) fails validation
                            ServerOut("process_request", request,
                                      Some("ValidationError"), None)
        /\ UNCHANGED <<tools, error_handlers>>

-----------------------------------------------------------------------------
(* Inputs and bounds of the router specification                            *)

MaxLog == 1            \* decisions logged in one behaviour

\* ids, types and priorities offered to register_source; "" is a legal str id
SourceIds    == {"", "mem", "web"}
SourceTypes  == {"memory", "web_search"}
Priorities   == {0, 10}

\* the query text of the routed requests: "ai"
RouteQueries == {<<"a", "i">>}

\* strategy arguments: None, the five members, and two values outside the
\* enumeration, "round_robin" and the empty string
StrategyInputs ==
    {None} \cup {Some(st) : st \in RoutingStrategy} \cup {Some("round_robin"), Some("")}

RouterInit ==
    /\ registered_sources = <<>>
    /\ source_metrics = [k \in {} |-> ZeroMetrics]
    /\ routing_decisions_log = <<>>
    /\ router_out = RouterOut("none", "ok", <<>>, None, "", <<>>, Zero, "")
    /\ decisions_returned = 0
    /\ list_history = <<>>
    /\ lookup_history = <<>>
    /\ register_call = None

FreshInit ==
    /\ days_old = -1
    /\ freshness = ScoreFreshness(-1)

SynthInit ==
    /\ synth_out = SynthOut("none", "ok", <<>>, <<>>, <<>>, <<>>, <<>>, Zero, <<>>, <<>>, <<>>, 0)
    /\ synth_track = [parity |-> 0, touched |-> {}, repeated |-> FALSE, between |-> {}]

-----------------------------------------------------------------------------
(* Specifications                                                           *)

RegisterStep ==
    /\ \E id \in SourceIds, type \in SourceTypes, priority \in Priorities :
           RegisterSource(id, type, priority)
    /\ UNCHANGED <<register_call, scorer_vars, fresh_vars, synth_vars, server_vars, conc_vars>>

RouteStep ==
    /\ \E query \in RouteQueries, strategy \in StrategyInputs :
           /\ Len(routing_decisions_log) < MaxLog
           /\ RouteRequest(query, strategy)
    /\ UNCHANGED <<scorer_vars, fresh_vars, synth_vars, server_vars, conc_vars>>

RouterNext == RegisterStep \/ RouteStep

ModelInit == ScorerInit /\ FreshInit /\ RouterInit /\ SynthInit /\ ServerInit /\ ConcInit

SpecRouter == ModelInit /\ [][RouterNext]_vars

SynthesizeStep ==
    /\ \E query \in SynthQueries, blocks \in BlockSeqs : SynthesizeContent(query, blocks)
    /\ UNCHANGED <<synth_track, scorer_vars, fresh_vars, server_vars, conc_vars>>

SynthNext == SynthesizeStep

SpecSynth == ModelInit /\ [][SynthNext]_vars

\* ages advance by a day or by two months at a time, up to MaxAgeDays
MaxAgeDays == 800
AgeSteps   == {1, 60}

AgeStep ==
    \E k \in AgeSteps :
        /\ days_old + k <= MaxAgeDays
        /\ days_old' = days_old + k
        /\ freshness' = ScoreFreshness(days_old + k)
        /\ UNCHANGED <<scorer_vars, router_vars, synth_vars, server_vars, conc_vars>>

FreshNext == AgeStep

SpecFresh == ModelInit /\ [][FreshNext]_vars

SetFactorWeightStep ==
    \E factor \in FactorInputs, weight \in WeightInputs :
        /\ ~InUnit(weight) \/ weight_calls < MaxWeightCalls
        /\ SetFactorWeight(factor, weight)
        /\ weight_calls' = IF InUnit(weight) THEN weight_calls + 1 ELSE weight_calls
        /\ UNCHANGED <<fresh_vars, router_vars, synth_vars, server_vars, conc_vars>>

SetSourceReliabilityStep ==
    /\ \E source_type \in SetSourceTypes, reliability \in ReliabilityInputs :
           SetSourceReliability(source_type, reliability)
    /\ UNCHANGED <<fresh_vars, router_vars, synth_vars, server_vars, conc_vars>>

ScoreContentStep ==
    /\ \E in \in ScoreInputs : ScoreContent(in)
    /\ UNCHANGED <<fresh_vars, router_vars, synth_vars, server_vars, conc_vars>>

ScorerNext == SetFactorWeightStep \/ SetSourceReliabilityStep \/ ScoreContentStep

SpecScorer == ModelInit /\ [][ScorerNext]_vars

\* the registry operations with list_sources; routing and synthesis intervene
ListSourcesStep ==
    /\ ListSources
    /\ UNCHANGED <<scorer_vars, fresh_vars, synth_vars, server_vars, conc_vars>>

\* registrations, routed requests and syntheses between two listings
ListedTypes == {"memory", "web_search"}

SourcesRegisterStep ==
    /\ \E id \in SourceIds, type \in ListedTypes, priority \in Priorities :
           RegisterSource(id, type, priority)
    /\ UNCHANGED <<register_call, scorer_vars, fresh_vars, synth_vars, server_vars, conc_vars>>

SourcesRouteStep ==
    /\ \E query \in RouteQueries :
           /\ Len(routing_decisions_log) < MaxLog
           /\ RouteRequest(query, None)
    /\ UNCHANGED <<scorer_vars, fresh_vars, synth_vars, server_vars, conc_vars>>

SourcesSynthesizeStep ==
    /\ SynthesizeContent(<<>>, <<>>)
    /\ UNCHANGED <<synth_track, scorer_vars, fresh_vars, server_vars, conc_vars>>

SourcesNext ==
    SourcesRegisterStep \/ ListSourcesStep \/ SourcesRouteStep \/ SourcesSynthesizeStep

SpecSources == ModelInit /\ [][SourcesNext]_vars

\* lookups by type between registrations; "api" is a type nothing is registered as
LookupTypes == {"memory", "web_search", "api"}

LookupStep ==
    /\ \E source_type \in LookupTypes : LookupSource(source_type)
    /\ UNCHANGED <<scorer_vars, fresh_vars, synth_vars, server_vars, conc_vars>>

\* registrations whose arguments are kept for comparison with their effect
LookupRegisterStep ==
    /\ \E id \in SourceIds, type \in SourceTypes, priority \in Priorities :
           /\ RegisterSource(id, type, priority)
           /\ register_call' = Some([id |-> id, type |-> type, priority |-> priority])
    /\ UNCHANGED <<scorer_vars, fresh_vars, synth_vars, server_vars, conc_vars>>

LookupNext == LookupRegisterStep \/ LookupStep

SpecLookup == ModelInit /\ [][LookupNext]_vars

\* synthesis between registrations and routings: block lists of at most
\* MaxFrameBlocks blocks, in and out of score order, and two queries.  synth_track
\* notes the router operations since the last synthesize_content call (touched),
\* whether the last call repeated the query and blocks of the one before
\* (repeated) and the router operations between the two (between).
MaxFrameBlocks == 2

FrameBlockPool == {b \in BlockPool : b.content_id \in {"block1", "block4"}}
FrameBlockSeqs == UNION {[1..n -> FrameBlockPool] : n \in 0..MaxFrameBlocks}
FrameQueries   == {<<"c", "a", "t", "s">>, <<>>}

FrameRegisterStep ==
    /\ \E priority \in Priorities : RegisterSource("mem", "memory", priority)
    /\ synth_track' = [synth_track EXCEPT !.touched = @ \cup {"register_source"}]
    /\ UNCHANGED <<synth_out, register_call, scorer_vars, fresh_vars, server_vars, conc_vars>>

FrameRouteStep ==
    /\ \E query \in RouteQueries :
           /\ Len(routing_decisions_log) < MaxLog
           /\ RouteRequest(query, None)
    /\ synth_track' = [synth_track EXCEPT !.touched = @ \cup {"route_request"}]
    /\ UNCHANGED <<synth_out, scorer_vars, fresh_vars, server_vars, conc_vars>>

FrameSynthesizeStep ==
    /\ \E query \in FrameQueries, blocks \in FrameBlockSeqs :
           /\ SynthesizeContent(query, blocks)
           /\ LET same == /\ synth_out.op = "synthesize_content"
                           /\ synth_out.query = query
                           /\ synth_out.blocks = blocks
              IN  synth_track' = [parity   |-> 1 - synth_track.parity,
                                  touched  |-> {},
                                  repeated |-> same,
                                  between  |-> IF same THEN synth_track.touched ELSE {}]
    /\ UNCHANGED <<scorer_vars, fresh_vars, server_vars, conc_vars>>

FrameNext == FrameRegisterStep \/ FrameRouteStep \/ FrameSynthesizeStep

SpecFrame == ModelInit /\ [][FrameNext]_vars

\* concurrent routing: two callers make at most MaxCalls calls in all while a
\* third thread registers the two sources, in either order and again; the
\* callers being alike, c2 is taken only while c1 is in a call
MaxCalls == 2

ConcStrategies == {Some("memory_first"), Some("balanced"), Some("round_robin")}
ConcSources    == {<<"mem", "memory", 0>>, <<"web", "web_search", 0>>}

ConcRegisterStep ==
    /\ \/ \E src \in ConcSources : RegisterWrite(src[1], src[2], src[3])
       \/ RegisterMetrics
    /\ UNCHANGED <<scorer_vars, fresh_vars, synth_vars, server_vars>>

ConcCallStep ==
    /\ \E c \in Callers, query \in RouteQueries, strategy \in ConcStrategies :
           /\ calls_started < MaxCalls
           /\ c = "c1" \/ callers["c1"].pc # "idle"
           /\ CallRoute(c, query, strategy)
    /\ UNCHANGED <<scorer_vars, fresh_vars, synth_vars, server_vars>>

ConcLookupStep ==
    /\ \E c \in Callers : BeginIteration(c) \/ NextItem(c)
    /\ UNCHANGED <<scorer_vars, fresh_vars, synth_vars, server_vars>>

ConcLogStep ==
    /\ \E c \in Callers : LogDecision(c)
    /\ UNCHANGED <<scorer_vars, fresh_vars, synth_vars, server_vars>>

ConcReturnStep ==
    /\ \E c \in Callers : ReturnDecision(c)
    /\ UNCHANGED <<scorer_vars, fresh_vars, synth_vars, server_vars>>

ConcNext ==
    ConcRegisterStep \/ ConcCallStep \/ ConcLookupStep \/ ConcLogStep \/ ConcReturnStep

SpecConcurrent == ModelInit /\ [][ConcNext]_vars

\* the server: two tools, requests of every method naming them or a tool that
\* was never registered, and handlers for the two kinds of error
MaxRequests == 2

ToolNames    == {"search", "echo"}
RequestTools == ToolNames \cup {"nonexistent"}
Methods      == {"execute", "list_tools", "get_tool_info", "shutdown"}
RequestIds   == {"req_123"}
ErrorTypes   == {"MCPException", "RuntimeError"}
HandlerKinds == {"sync", "async"}

Requests ==
    {MCPRequest(id, "execute", t, None) : id \in RequestIds, t \in RequestTools}
    \cup {MCPRequest(id, m, "", None) : id \in RequestIds, m \in {"list_tools", "shutdown"}}
    \cup {MCPRequest(id, "get_tool_info", "", n) : id \in RequestIds,
              n \in {None, Some(""), Some("search"), Some("nonexistent")}}

RegisterToolStep ==
    /\ \E name \in ToolNames : RegisterTool(name)
    /\ UNCHANGED <<scorer_vars, fresh_vars, router_vars, synth_vars, conc_vars>>

UnregisterToolStep ==
    /\ \E name \in RequestTools : UnregisterTool(name)
    /\ UNCHANGED <<scorer_vars, fresh_vars, router_vars, synth_vars, conc_vars>>

RegisterErrorHandlerStep ==
    /\ \E error_type \in ErrorTypes, kind \in HandlerKinds :
           RegisterErrorHandler(error_type, kind)
    /\ UNCHANGED <<scorer_vars, fresh_vars, router_vars, synth_vars, conc_vars>>

ProcessRequestStep ==
    /\ \E request \in Requests, tool_raises \in BOOLEAN :
           /\ request_count < MaxRequests
           /\ ProcessRequest(request, tool_raises)
    /\ UNCHANGED <<scorer_vars, fresh_vars, router_vars, synth_vars, conc_vars>>

ServerNext ==
    RegisterToolStep \/ UnregisterToolStep \/ RegisterErrorHandlerStep \/ ProcessRequestStep

SpecServer == ModelInit /\ [][ServerNext]_vars

\* the decision log under every router operation: a memory and a web_search
\* source are registered in either order and requests are routed with every
\* strategy argument
MaxLogRecords == 2

LogRegisterStep ==
    /\ \E id \in {"mem", "web"} :
           RegisterSource(id, IF id = "mem" THEN "memory" ELSE "web_search", 0)
    /\ UNCHANGED <<register_call, scorer_vars, fresh_vars, synth_vars, server_vars, conc_vars>>

LogRouteStep ==
    /\ \E query \in RouteQueries, strategy \in StrategyInputs :
           /\ Len(routing_decisions_log) < MaxLogRecords
           /\ RouteRequest(query, strategy)
    /\ UNCHANGED <<scorer_vars, fresh_vars, synth_vars, server_vars, conc_vars>>

LogNext == LogRegisterStep \/ ListSourcesStep \/ LogRouteStep \/ SourcesSynthesizeStep

SpecLog == ModelInit /\ [][LogNext]_vars

\* set_factor_weight alone, with any factor and the weights of ZeroWeightInputs:
\* every sequence of calls that set weights to 0
SetWeightStep ==
    \E factor \in FactorSet, weight \in ZeroWeightInputs :
        /\ SetFactorWeight(factor, weight)
        /\ UNCHANGED <<weight_calls, fresh_vars, router_vars, synth_vars, server_vars, conc_vars>>

WeightsNext == SetWeightStep

SpecWeights == ModelInit /\ [][WeightsNext]_vars

-----------------------------------------------------------------------------
(* Claims                                                                   *)

\* C1: every set_factor_weight(factor, w) with w in [0,1] completes without
\* error and leaves the weight table summing to 1.
C1_WeightsSumToOne ==
    (scorer_out.op = "set_factor_weight" /\ InUnit(scorer_out.val))
        => /\ scorer_out.status = "ok"
           /\ WeightTotal(factor_weights) = One

\* C2: score_content returns an overall_score in [0,1] in every scorer state and
\* for every input, and the citation factor's value never exceeds 1.
C2_OverallScoreInUnit ==
    scorer_out.op = "score_content"
        => /\ InUnit(scorer_out.overall_score)
           /\ RLe(scorer_out.components[6].value, One)

\* 10000 citations with out-of-range scores: the raw weighted sum exceeds 1
C2_Witness ==
    /\ scorer_out.op = "score_content"
    /\ scorer_out.input.citation_count = 10000
    /\ scorer_out.components[6].value = One
    /\ RLt(One, WeightedSum(scorer_out.components))
    /\ weight_calls = 1

\* C3: the freshness score never increases as the age in days increases.
C3_FreshnessNonIncreasing == [][RLe(freshness', freshness)]_vars

\* the decay region has reached the 0.2 floor
C3_Witness == days_old = 584 /\ freshness = Rat(1, 5)

\* C4: score_content reports, as the value of its source_reliability component,
\* the value last set for its source type by set_source_reliability; a type never
\* set and not in the default table is scored 0.5.
C4_ReliabilityUsed ==
    scorer_out.op = "score_content"
        => LET t == scorer_out.input.source_type
               v == scorer_out.components[1].value
           IN  /\ scorer_out.components[1].factor = "source_reliability"
               /\ t \in DOMAIN reliability_history => v = reliability_history[t]
               /\ (t \notin DOMAIN reliability_history
                   /\ t \notin DOMAIN DefaultSourceReliability) => v = Rat(1, 2)

\* "custom" was set to 0.8 and a later score_content used it
C4_Witness ==
    /\ scorer_out.op = "score_content"
    /\ scorer_out.input.source_type = "custom"
    /\ "custom" \in DOMAIN reliability_history
    /\ scorer_out.components[1].value = Rat(4, 5)

\* the registered sources of one type, and those of them of the greatest priority
OfType(t) == {i \in 1..Len(registered_sources) : registered_sources[i].type = t}
BestIds(t) ==
    {registered_sources[i].id : i \in
        {j \in OfType(t) : \A k \in OfType(t) :
            registered_sources[j].priority >= registered_sources[k].priority}}

\* C5: memory_first selects [m, w], [m], [w] or [] according to which of a memory
\* and a web_search source are registered, m and w being of the highest priority
\* of their type; expected_quality is 0.8 for a non-empty selection, else 0.5.
C5_MemoryFirstSelection ==
    (router_out.op = "route_request" /\ router_out.status = "ok"
     /\ router_out.strategy = "memory_first")
        => LET sel == router_out.sources_to_query
               hasM == OfType("memory") # {}
               hasW == OfType("web_search") # {}
           IN  /\ Len(sel) = (IF hasM THEN 1 ELSE 0) + (IF hasW THEN 1 ELSE 0)
               /\ hasM => sel[1] \in BestIds("memory")
               /\ hasW => sel[Len(sel)] \in BestIds("web_search")
               /\ router_out.expected_quality =
                      (IF hasM \/ hasW THEN Rat(8, 10) ELSE Rat(5, 10))

\* C6: balanced selects every registered id exactly once, in registry order, with
\* expected_quality 0.9.  The ids registered are the keys of the metrics table.
C6_BalancedSelectsAll ==
    (router_out.op = "route_request" /\ router_out.status = "ok"
     /\ router_out.strategy = "balanced")
        => LET sel == router_out.sources_to_query
           IN  /\ Len(sel) = Cardinality(DOMAIN source_metrics)
               /\ {sel[i] : i \in 1..Len(sel)} = DOMAIN source_metrics
               /\ \A i, j \in 1..Len(sel) : i # j => sel[i] # sel[j]
               /\ sel = IdsOf(registered_sources)
               /\ router_out.expected_quality = Rat(9, 10)

\* all three ids are registered and selected
C6_Witness ==
    /\ router_out.op = "route_request"
    /\ router_out.strategy = "balanced"
    /\ Len(router_out.sources_to_query) = 3

\* C7: an empty block sequence gives empty aggregated text, quality 0, no
\* sources, and a gap entry "No content available for query".
C7_EmptySynthesis ==
    (synth_out.op = "synthesize_content" /\ synth_out.blocks = <<>>)
        => /\ synth_out.status = "ok"
           /\ synth_out.aggregated_content = <<>>
           /\ synth_out.quality_score = Zero
           /\ synth_out.sources = <<>>
           /\ \E k \in 1..Len(synth_out.gaps) :
                  synth_out.gaps[k] = Msg("No content available for query", <<>>)

\* no blocks and a query with a long term: two gap entries
C7_Witness ==
    /\ synth_out.op = "synthesize_content"
    /\ synth_out.status = "ok"
    /\ synth_out.blocks = <<>>
    /\ Len(synth_out.gaps) = 2

\* C8: quality_score is the arithmetic mean of the blocks' relevance scores, 0
\* for no blocks, and lies in [0,1].
C8_QualityIsMean ==
    synth_out.op = "synthesize_content"
        => LET bs == synth_out.blocks
               n  == Len(bs)
           IN  /\ synth_out.status = "ok"
               /\ n = 0 => synth_out.quality_score = Zero
               /\ n > 0 => RMul(synth_out.quality_score, Rat(n, 1)) =
                               RSum([k \in 1..n |-> bs[k].relevance_score])
               /\ InUnit(synth_out.quality_score)

\* p is an order of the blocks bs that is descending by score and keeps the
\* input order of equal scores
StableDescending(bs, p) ==
    /\ Len(p) = Len(bs)
    /\ {p[k] : k \in 1..Len(p)} = 1..Len(bs)
    /\ \A a, b \in 1..Len(p) :
           a < b => \/ RLt(bs[p[b]].relevance_score, bs[p[a]].relevance_score)
                    \/ (bs[p[a]].relevance_score = bs[p[b]].relevance_score /\ p[a] < p[b])

\* C9: the aggregated text holds every block's body once, each followed by its
\* attribution line, in descending order of score, equal scores in input order.
C9_AggregatedDescending ==
    (synth_out.op = "synthesize_content" /\ synth_out.blocks # <<>>)
        => LET bs == synth_out.blocks
           IN  /\ synth_out.status = "ok"
               /\ \E p \in [1..Len(bs) -> 1..Len(bs)] :
                      /\ StableDescending(bs, p)
                      /\ synth_out.aggregated_content =
                             Join(<<"\n", "\n">>,
                                  [k \in 1..Len(bs) |-> Attributed(bs[p[k]])])

\* C10: sources holds every source_id the blocks reference, each exactly once.
C10_SourcesDistinct ==
    synth_out.op = "synthesize_content"
        => LET bs  == synth_out.blocks
               src == synth_out.sources
           IN  /\ synth_out.status = "ok"
               /\ {src[k].source_id : k \in 1..Len(src)} =
                      {bs[k].source.source_id : k \in 1..Len(bs)}
               /\ \A a, b \in 1..Len(src) :
                      a # b => src[a].source_id # src[b].source_id

\* C11: a list_sources call changes neither the registry nor the metrics, and
\* returns what the previous list_sources call returned when no register_source
\* was called in between, whatever was routed or synthesized meanwhile.
C11_ListSourcesIdempotent ==
    [][router_out'.op = "list_sources"
          => /\ registered_sources' = registered_sources
             /\ source_metrics' = source_metrics
             /\ Len(list_history') = 2 => list_history'[1] = list_history'[2]]_vars

\* three sources listed twice, with a request routed and a synthesis made
C11_Witness ==
    /\ router_out.op = "list_sources"
    /\ Len(list_history) = 2
    /\ Len(list_history[2]) = 3
    /\ Len(routing_decisions_log) = 1
    /\ synth_out.op = "synthesize_content"

\* C12: list_sources returns one entry for each registered id, with the type,
\* priority and metrics registered for it, and no entry has a priority greater
\* than the entry before it.
C12_ListSortedByPriority ==
    list_history # <<>>
        => LET listed == list_history[Len(list_history)]
               reg == registered_sources
           IN  /\ Len(listed) = Cardinality(IdSet(reg))
               /\ {listed[i].id : i \in 1..Len(listed)} = IdSet(reg)
               /\ IdSet(reg) = DOMAIN source_metrics
               /\ \A i \in 1..Len(listed) : \E j \in 1..Len(reg) :
                      /\ reg[j].id = listed[i].id
                      /\ reg[j].type = listed[i].type
                      /\ reg[j].priority = listed[i].priority
                      /\ source_metrics[reg[j].id] = listed[i].metrics
               /\ \A i \in 1..(Len(listed) - 1) :
                      listed[i].priority >= listed[i + 1].priority

\* registered in the order 0, 10, 10 and listed in the order 10, 10, 0
C12_Witness ==
    /\ list_history # <<>>
    /\ Len(registered_sources) = 3
    /\ registered_sources[1].priority = 0
    /\ registered_sources[2].priority = 10
    /\ registered_sources[3].priority = 10
    /\ IdsOf(list_history[Len(list_history)]) =
           <<registered_sources[2].id, registered_sources[3].id, registered_sources[1].id>>

\* C13: a successful set_factor_weight(factor, w) stores, for every factor of the
\* table, its value after the assignment divided by the total after the
\* assignment: the target holds w / total, and the weights of any two other
\* factors keep their ratio.
C13_RenormalizesEveryWeight ==
    (scorer_out.op = "set_factor_weight" /\ scorer_out.status = "ok")
        => LET f == scorer_out.key
               w == scorer_out.val
               old == scorer_out.before.factor_weights
               after(g) == IF g = f THEN w ELSE old[g]
               keys == DOMAIN old \cup {f}
               total == RSum(WeightValues([g \in keys |-> after(g)], 1))
           IN  /\ DOMAIN factor_weights = keys
               /\ \A g \in keys : RMul(factor_weights[g], total) = after(g)
               /\ \A g, h \in DOMAIN old \ {f} :
                      RMul(factor_weights[g], old[h]) = RMul(factor_weights[h], old[g])

\* relevance set to 0.5 on the default table is stored as 0.5 / 1.25 = 0.4
C13_Witness ==
    /\ scorer_out.op = "set_factor_weight"
    /\ scorer_out.status = "ok"
    /\ scorer_out.key = "relevance"
    /\ scorer_out.val = Rat(1, 2)
    /\ factor_weights["relevance"] = Rat(2, 5)
    /\ factor_weights["source_reliability"] = Rat(1, 5)
    /\ factor_weights["accuracy"] = Rat(3, 25)

\* C14: set_factor_weight and set_source_reliability called with a value outside
\* [0,1] raise ValueError and leave the factor weights and the source
\* reliabilities as they were.
C14_InvalidValueRejected ==
    (scorer_out.op \in {"set_factor_weight", "set_source_reliability"}
     /\ ~InUnit(scorer_out.val))
        => /\ scorer_out.status = "ValueError"
           /\ factor_weights = scorer_out.before.factor_weights
           /\ source_reliability_scores = scorer_out.before.source_reliability_scores

\* 1.5 was refused as a reliability after the tables had been changed
C14_Witness ==
    /\ scorer_out.op = "set_source_reliability"
    /\ scorer_out.status = "ValueError"
    /\ scorer_out.val = Rat(3, 2)
    /\ "custom" \in DOMAIN source_reliability_scores
    /\ factor_weights # DefaultFactorWeights

\* C15: route_request with a strategy argument that is none of the five
\* enumerated strategies raises ValueError, returns no decision and appends
\* nothing to the decision log.
C15_UnknownStrategyRejected ==
    [][(router_out'.op = "route_request"
        /\ router_out'.strategy_arg # None
        /\ router_out'.strategy_arg[1] \notin RoutingStrategy)
          => /\ router_out'.status = "ValueError"
             /\ router_out'.sources_to_query = <<>>
             /\ routing_decisions_log' = routing_decisions_log]_vars

\* the source types a strategy asks for; balanced asks for whatever is registered
AskedTypes(s) ==
    CASE s = "memory_first"   -> {"memory", "web_search"}
      [] s = "external_first" -> {"memory", "web_search"}
      [] s = "memory_only"    -> {"memory"}
      [] s = "external_only"  -> {"web_search"}
      [] s = "balanced"       -> {registered_sources[i].type : i \in 1..Len(registered_sources)}

\* the expected_quality a strategy returns with a memory and a web_search source
QualityWhenAllRegistered(s) ==
    LET reg == <<[id |-> "mem", type |-> "memory", priority |-> 0],
                 [id |-> "web", type |-> "web_search", priority |-> 0]>>
    IN  CASE s = "memory_first"   -> RouteMemoryFirst(reg).expected_quality
          [] s = "external_first" -> RouteExternalFirst(reg).expected_quality
          [] s = "memory_only"    -> RouteMemoryOnly(reg).expected_quality
          [] s = "external_only"  -> RouteExternalOnly(reg).expected_quality
          [] s = "balanced"       -> RouteBalanced(reg).expected_quality

\* C16: a strategy routed while no source of a type it asks for is registered
\* returns a decision, and an expected_quality strictly below the one it returns
\* when all the types it asks for are registered.
C16_DegradedQualityLower ==
    (router_out.op = "route_request" /\ router_out.strategy_arg \in
         ({None} \cup {Some(st) : st \in RoutingStrategy}))
        => LET s == router_out.strategy
           IN  (\A i \in 1..Len(registered_sources) :
                    registered_sources[i].type \notin AskedTypes(s))
                   => /\ router_out.status = "ok"
                      /\ RLt(router_out.expected_quality, QualityWhenAllRegistered(s))

\* C17: the decision log has one record for each decision route_request has
\* returned; a step either leaves the log as it is or appends one record that
\* holds the query, strategy, sources and expected quality of the decision just
\* returned, and earlier records keep their place and content.
C17_LogAppendOnly ==
    [][LET old == routing_decisions_log
           new == routing_decisions_log'
       IN  /\ Len(new) >= Len(old)
           /\ SubSeq(new, 1, Len(old)) = old
           /\ Len(old) = decisions_returned
           /\ Len(new) = decisions_returned'
           /\ Len(new) # Len(old)
                  => /\ Len(new) = Len(old) + 1
                     /\ router_out'.op = "route_request"
                     /\ router_out'.status = "ok"
                     /\ new[Len(new)] =
                            [query |-> router_out'.query,
                             strategy |-> router_out'.strategy,
                             sources |-> router_out'.sources_to_query,
                             expected_quality |-> router_out'.expected_quality]]_vars

\* two different records, with a failed request, a listing and a synthesis made
\* after the first
C17_Witness ==
    /\ Len(routing_decisions_log) = 2
    /\ routing_decisions_log[1].strategy = "memory_only"
    /\ routing_decisions_log[1].sources = <<"mem">>
    /\ routing_decisions_log[2].strategy = "external_first"
    /\ routing_decisions_log[2].sources = <<"web", "mem">>
    /\ list_history # <<>>
    /\ synth_out.op = "synthesize_content"
    /\ decisions_returned = 2

\* C18: the quality_level score_content returns is verified for an overall_score
\* of at least 0.90, high from 0.75 up to but not including 0.90, medium from
\* 0.50 up to but not including 0.75, and low below 0.50.
C18_QualityLevelThresholds ==
    scorer_out.op = "score_content"
        => LET score == scorer_out.overall_score
               level == scorer_out.quality_level
           IN  /\ level \in {"verified", "high", "medium", "low"}
               /\ level = "verified" <=> RLe(Rat(90, 100), score)
               /\ level = "high" <=> (RLe(Rat(75, 100), score) /\ RLt(score, Rat(90, 100)))
               /\ level = "medium" <=> (RLe(Rat(50, 100), score) /\ RLt(score, Rat(75, 100)))
               /\ level = "low" <=> RLt(score, Rat(50, 100))

\* an overall score of exactly 0.75 is high
C18_Witness ==
    /\ scorer_out.op = "score_content"
    /\ scorer_out.overall_score = Rat(3, 4)
    /\ scorer_out.quality_level = "high"

\* C19: external_first selects the web_search source of the highest priority if
\* one is registered, then the memory source of the highest priority if one is
\* registered; expected_quality is 0.85 when both are selected and 0.6 otherwise.
C19_ExternalFirstSelection ==
    (router_out.op = "route_request" /\ router_out.status = "ok"
     /\ router_out.strategy = "external_first")
        => LET sel == router_out.sources_to_query
               hasM == OfType("memory") # {}
               hasW == OfType("web_search") # {}
           IN  /\ Len(sel) = (IF hasW THEN 1 ELSE 0) + (IF hasM THEN 1 ELSE 0)
               /\ hasW => sel[1] \in BestIds("web_search")
               /\ hasM => sel[Len(sel)] \in BestIds("memory")
               /\ router_out.expected_quality =
                      (IF Len(sel) = 2 THEN Rat(85, 100) ELSE Rat(60, 100))

\* C20: memory_only returns the memory source of the highest priority with 0.75
\* when a memory source is registered and nothing with 0.0 otherwise;
\* external_only does the same for web_search with 0.7.
C20_SingleTypeSelection ==
    (router_out.op = "route_request" /\ router_out.status = "ok"
     /\ router_out.strategy \in {"memory_only", "external_only"})
        => LET sel == router_out.sources_to_query
               t == IF router_out.strategy = "memory_only" THEN "memory" ELSE "web_search"
               q == IF router_out.strategy = "memory_only" THEN Rat(75, 100) ELSE Rat(70, 100)
           IN  IF OfType(t) # {}
               THEN /\ Len(sel) = 1
                    /\ sel[1] \in BestIds(t)
                    /\ router_out.expected_quality = q
               ELSE /\ sel = <<>>
                    /\ router_out.expected_quality = Zero

\* C21: _get_source_by_type returns None exactly when no registered source has
\* the type; otherwise it returns the id of a registered source of the type whose
\* priority no other source of the type exceeds; two lookups of one type with no
\* registration between them return the same id.
C21_LookupHighestPriority ==
    lookup_history # <<>>
        => LET call == lookup_history[Len(lookup_history)]
               t == call.source_type
           IN  /\ call.result = None <=> OfType(t) = {}
               /\ call.result # None
                      => /\ Len(call.result) = 1
                         /\ call.result[1] \in BestIds(t)
               /\ (Len(lookup_history) = 2 /\ lookup_history[1].source_type = t)
                      => lookup_history[1].result = call.result

\* two memory sources tie at priority 10 above a third, and two lookups of
\* "memory" both return the one registered first
C21_Witness ==
    /\ Len(lookup_history) = 2
    /\ lookup_history[1].source_type = "memory"
    /\ lookup_history[2].source_type = "memory"
    /\ Len(registered_sources) = 3
    /\ \A i \in 1..3 : registered_sources[i].type = "memory"
    /\ registered_sources[1].priority = 0
    /\ registered_sources[2].priority = 10
    /\ registered_sources[3].priority = 10
    /\ lookup_history[2].result = Some(registered_sources[2].id)

\* C22: register_source(id, type, handler, priority) for a registered id puts the
\* new type and priority in that id's entry, zeroes its metrics, and leaves the
\* number of ids and every other entry and metrics as they were; for a new id it
\* adds one entry with zero metrics; the same call made again changes nothing.
C22_RegisterOverwrites ==
    [][router_out'.op = "register_source"
          => LET old == registered_sources
                 new == registered_sources'
                 call == register_call'[1]
                 id == call.id
             IN  /\ Len(new) = Len(old) + (IF id \in IdSet(old) THEN 0 ELSE 1)
                 /\ Cardinality(IdSet(new)) = Len(new)
                 /\ IdSet(new) = IdSet(old) \cup {id}
                 /\ \A i \in 1..Len(new) : new[i].id = id => new[i] = call
                 /\ \A i \in 1..Len(old) :
                        old[i].id # id => \E j \in 1..Len(new) : new[j] = old[i]
                 /\ DOMAIN source_metrics' = DOMAIN source_metrics \cup {id}
                 /\ source_metrics'[id] = ZeroMetrics
                 /\ \A k \in DOMAIN source_metrics \ {id} :
                        source_metrics'[k] = source_metrics[k]
                 /\ (register_call = register_call' /\ id \in IdSet(old))
                        => new = old]_vars

\* "mem" was registered first and then registered again with another type and
\* priority; it is still the first of three entries
C22_Witness ==
    /\ router_out.op = "register_source"
    /\ Len(registered_sources) = 3
    /\ registered_sources[1] = [id |-> "mem", type |-> "web_search", priority |-> 10]
    /\ registered_sources[2].type = "memory"
    /\ register_call = Some(registered_sources[1])

\* C23: process_request with method execute naming a tool that is not registered
\* (never registered, or removed by unregister_tool) does not raise: it returns a
\* response with status error, a non-empty error field and the request's own
\* request_id, adds one to request_count and to error_count, and changes no
\* tool's execution_count.
C23_UnregisteredToolStep ==
    /\ request_count' = request_count + 1
    /\ server_out'.request.method = "execute"
    /\ server_out'.request.tool \notin tools

C23_ErrorResponse ==
    /\ server_out'.raised = None
    /\ server_out'.response # None
    /\ server_out'.response[1].status = "error"
    /\ server_out'.response[1].error # None
    /\ server_out'.response[1].request_id = server_out'.request.request_id
    /\ error_count' = error_count + 1
    /\ execution_count' = execution_count

C23_UnregisteredToolHandled ==
    [][C23_UnregisteredToolStep => C23_ErrorResponse]_vars

\* C23 without an async def handler registered for MCPException: the default
\* handler and a plain-function handler both yield the error response.
C23_HandledUnlessAsyncHandler ==
    [][(C23_UnregisteredToolStep
          /\ ~("MCPException" \in DOMAIN error_handlers
                 /\ error_handlers["MCPException"] = "async"))
        => C23_ErrorResponse]_vars


\* C24: for a non-empty sequence of blocks that carry titles, the
\* aggregated_content returned by synthesize_content contains the title of at
\* least one input block.
C24_AggregatedHasATitle ==
    LET bs == synth_out.blocks
    IN  (/\ synth_out.op = "synthesize_content"
         /\ bs # <<>>
         /\ \A k \in 1..Len(bs) : bs[k].title # None)
            => /\ synth_out.status = "ok"
               /\ \E k \in 1..Len(bs) :
                      Contains(synth_out.aggregated_content, bs[k].title[1])

\* the query tokens longer than 3 characters that occur nowhere in the bodies,
\* in query order
C25_Missing(query, bs) ==
    LET text == Join(<<" ">>, [k \in 1..Len(bs) |-> Lower(bs[k].body)])
    IN  SelectSeq(Split(Lower(query)),
                  LAMBDA term : Len(term) > 3 /\ ~Contains(text, term))

\* C25: gaps is exactly: one entry listing all missing tokens when there is one;
\* then "No content available for query" for zero blocks or the single-source
\* entry for exactly one block; empty for two or more blocks and no missing token.
C25_GapsExact ==
    synth_out.op = "synthesize_content"
        => LET bs      == synth_out.blocks
               missing == C25_Missing(synth_out.query, bs)
               first   == IF missing # <<>>
                          THEN <<Msg("Missing coverage on: ", Join(<<",", " ">>, missing))>>
                          ELSE <<>>
               second  == CASE Len(bs) = 0 -> <<Msg("No content available for query", <<>>)>>
                            [] Len(bs) = 1 -> <<Msg("Only single source available, multiple sources recommended", <<>>)>>
                            [] OTHER -> <<>>
           IN  /\ synth_out.status = "ok"
               /\ synth_out.gaps = first \o second

\* C26: recommendations is exactly, in this order: the contradiction entry with
\* the count iff contradictions is non-empty, the entry echoing the first gap iff
\* gaps is non-empty, the multiple-sources entry iff fewer than 2 blocks, the
\* query-refinement entry iff the mean relevance (0 for no blocks) is below 0.6.
C26_RecommendationsExact ==
    synth_out.op = "synthesize_content"
        => LET bs   == synth_out.blocks
               n    == Len(bs)
               low  == \/ n = 0
                       \/ RLt(RSum([k \in 1..n |-> bs[k].relevance_score]),
                               RMul(Rat(6, 10), Rat(n, 1)))
               e1   == IF synth_out.contradictions # <<>>
                       THEN <<Msg("Verify " \o ToString(Len(synth_out.contradictions))
                                  \o " contradiction(s) between sources", <<>>)>>
                       ELSE <<>>
               e2   == IF synth_out.gaps # <<>>
                       THEN <<Msg("Additional research needed: " \o synth_out.gaps[1].prefix,
                                  synth_out.gaps[1].text)>>
                       ELSE <<>>
               e3   == IF n < 2
                       THEN <<Msg("Consult multiple sources for better coverage", <<>>)>>
                       ELSE <<>>
               e4   == IF low
                       THEN <<Msg("Consider re-querying with refined search terms", <<>>)>>
                       ELSE <<>>
           IN  /\ synth_out.status = "ok"
               /\ synth_out.recommendations = e1 \o e2 \o e3 \o e4

\* C27: synthesize_content evaluates the conflict predicate once for every
\* unordered pair of input blocks and returns an empty contradictions list for
\* every input; the contradiction recommendation never appears.
C27_PredicateNeverFires ==
    synth_out.op = "synthesize_content"
        => LET n == Len(synth_out.blocks)
           IN  /\ synth_out.status = "ok"
               /\ 2 * synth_out.predicate_calls = n * (n - 1)
               /\ synth_out.contradictions = <<>>
               /\ \A k \in 1..Len(synth_out.recommendations) :
                      synth_out.recommendations[k].prefix
                          \notin {"Verify " \o ToString(c) \o " contradiction(s) between sources" :
                                      c \in 1..(n * n)}


\* C28: synthesize_content leaves the registered sources, the source metrics and
\* the decision log as they were and the caller's block list in its order and
\* content; a call with the query and blocks of the call before it has the same
\* outcome (aggregated text, sources, quality_score, contradictions, gaps and
\* recommendations), whatever was registered or routed in between.
C28_SynthesizeStep == synth_track'.parity # synth_track.parity

C28_WitnessUnsorted ==
    /\ synth_out.op = "synthesize_content"
    /\ Len(synth_out.blocks) = 2
    /\ RLt(synth_out.blocks[1].relevance_score, synth_out.blocks[2].relevance_score)
    /\ synth_out.content_blocks = synth_out.blocks
    /\ synth_track.repeated
    /\ synth_track.between # {}


\* C29: with route_request calls and register_source calls running concurrently,
\* no log append is lost and no decision is torn: the log holds one record for
\* every call that has appended, so exactly k records once k calls have returned
\* and none is about to; the returned decisions match distinct log records; and
\* every returned selection lies within the ids registered at one instant of
\* its call.
C29_AboutToReturn == {c \in Callers : callers[c].pc = "return"}

C29_NoLostOrTornDecision ==
    LET ret == conc_returned
        log == routing_decisions_log
    IN  /\ Len(log) = Len(ret) + Cardinality(C29_AboutToReturn)
        /\ \E p \in [1..Len(ret) -> 1..Len(log)] :
               /\ \A a, b \in 1..Len(ret) : a # b => p[a] # p[b]
               /\ \A k \in 1..Len(ret) :
                      log[p[k]] = LogRecord(ret[k].decision, ret[k].query)
        /\ \A k \in 1..Len(ret) :
               \E S \in ret[k].instants :
                   \A j \in 1..Len(ret[k].decision.sources_to_query) :
                       ret[k].decision.sources_to_query[j] \in S

\* two calls have returned, in the order opposite to their appends, one of them
\* selecting both sources after a registration during the call
C29_Witness ==
    /\ Len(conc_returned) = 2
    /\ Len(routing_decisions_log) = 2
    /\ \A c \in Callers : callers[c].pc = "idle"
    /\ routing_decisions_log[1] = LogRecord(conc_returned[2].decision, conc_returned[2].query)
    /\ routing_decisions_log[1] # routing_decisions_log[2]
    /\ \E k \in 1..2 :
           /\ Len(conc_returned[k].decision.sources_to_query) = 2
           /\ Cardinality(conc_returned[k].instants) >= 2


\* C30: in every scorer state reachable through set_factor_weight, called with
\* any member of ScoringFactors, score_content returns exactly seven components
\* whose weights are the scorer's current weights of their factors and sum to 1,
\* so that the overall_score is 1 when every factor value is 1.
C30_ComponentWeightsSumToOne ==
    scorer_out.op = "score_content"
        => LET cs == scorer_out.components
           IN  /\ Len(cs) = 7
               /\ \A k \in 1..Len(cs) : cs[k].weight = factor_weights[cs[k].factor]
               /\ RSum([k \in 1..Len(cs) |-> cs[k].weight]) = One
               /\ (\A k \in 1..Len(cs) : cs[k].value = One)
                      => scorer_out.overall_score = One

=========================================================================
